---- MODULE Spec2Model ----
(***************************************************************************)
(* Owlet monitor (owlet-monitor/main.go): the session cache kept by        *)
(* login(), device discovery, the per-cycle telemetry pipeline             *)
(* (reactivate, fetchProps, recordVitals) and the polling loop.            *)
(*                                                                         *)
(* One step of the model is the code between two blocking points of the    *)
(* single goroutine that runs loop(): an HTTP round trip (request issued,  *)
(* response or transport error received, time passed), a sleep, or the     *)
(* wait for the ticker.  Time is in seconds.                               *)
(***************************************************************************)
EXTENDS Integers, Sequences, FiniteSets, TLC

\* ------------------------------------------------------------------ bounds
\* The clock stops advancing after this many ticker intervals.
MaxTicks == 2

\* ------------------------------------------------------- program constants
\* "Re-auth 60 seconds before expiry"
Margin == 60
\* time.NewTicker(5 * time.Second)
TickInterval == 5
\* time.Sleep(5 * time.Second) after a failed periodic login
BackoffSleep == 5

MaxTime == MaxTicks * TickInterval

\* ------------------------------------------------------------ input domains
\* Wall-clock time one blocking HTTP call may take (the client times out at 30 s).
Durations == {0, 5}
\* HTTP status codes the upstream may answer with.
Statuses == {200, 201, 500}
\* access_token values the sign-in endpoint may return ("" : field missing).
Tokens == {"", "tA", "tB"}
\* expires_in values the sign-in endpoint may return.
TTLs == {30, 60, 70}
\* Values of OWLET_REGION ("" : unset).
RegionInputs == {"", "world", "europe", "mars"}

\* The process environment: OWLET_USER, OWLET_PASS, OWLET_REGION.
Envs ==
  {[OWLET_USER |-> "u", OWLET_PASS |-> "p", OWLET_REGION |-> r] : r \in RegionInputs}
  \cup {[OWLET_USER |-> "", OWLET_PASS |-> "p", OWLET_REGION |-> ""]}

\* ------------------------------------------------------------ region table
regionConfs ==
  [r \in {"world", "europe"} |->
     IF r = "world"
     THEN [URLMini   |-> "ayla-sso.owletdata.com/mini/",
           URLSignin |-> "user-field-1a2039d9/token_sign_in",
           URLBase   |-> "ads-field-1a2039d9/apiv1",
           APIKey    |-> "AIzaSyCsDZ8",
           AppID     |-> "sso-prod-3g-id",
           AppSecret |-> "sso-prod-UEjt"]
     ELSE [URLMini   |-> "ayla-sso.eu.owletdata.com/mini/",
           URLSignin |-> "user-field-eu-1a2039d9/token_sign_in",
           URLBase   |-> "ads-field-eu-1a2039d9/apiv1",
           APIKey    |-> "AIzaSyDm6Eh",
           AppID     |-> "OwletCare-Android-EU-fw-id",
           AppSecret |-> "OwletCare-Android-EU-JKup"]]

\* The seven gauges registered by init(), by name (without the owlet_ prefix).
MetricNames ==
  {"heart_rate", "oxygen_level", "base_battery_level", "charging_status",
   "base_station_on", "sensor_battery", "baby_movement"}

\* ------------------------------------------------------------------ JSON
\* A JSON value: [t |-> "null"], [t |-> "int", v |-> n], [t |-> "float", v |-> n]
\* (a number with a fraction, n its integer part) or [t |-> "str", s |-> ...].
JNull == [t |-> "null"]
JInt(n) == [t |-> "int", v |-> n]
JFloat(n) == [t |-> "float", v |-> n]
JStr(x) == [t |-> "str", s |-> x]

\* struct Vitals: field name -> [tag, typ]; typ is the Go type the pointer points to.
VitalsFields ==
  [f \in {"Alert", "Aps", "BaseBattery", "Bp", "Bsb", "Bso", "SensorBattery",
          "Charging", "HeartRate", "Hardware", "Mrs", "Mst", "BabyMovement",
          "Mvb", "Onm", "Ota", "Oxygen", "Oxta", "Rsi", "Sb", "Sc", "Srf",
          "Ss", "St"} |->
     CASE f = "Alert"         -> [tag |-> "alrt", typ |-> "int"]
       [] f = "Aps"           -> [tag |-> "aps",  typ |-> "int"]
       [] f = "BaseBattery"   -> [tag |-> "bat",  typ |-> "int"]
       [] f = "Bp"            -> [tag |-> "bp",   typ |-> "int"]
       [] f = "Bsb"           -> [tag |-> "bsb",  typ |-> "int"]
       [] f = "Bso"           -> [tag |-> "bso",  typ |-> "int"]
       [] f = "SensorBattery" -> [tag |-> "btt",  typ |-> "int"]
       [] f = "Charging"      -> [tag |-> "chg",  typ |-> "int"]
       [] f = "HeartRate"     -> [tag |-> "hr",   typ |-> "int"]
       [] f = "Hardware"      -> [tag |-> "hw",   typ |-> "string"]
       [] f = "Mrs"           -> [tag |-> "mrs",  typ |-> "int"]
       [] f = "Mst"           -> [tag |-> "mst",  typ |-> "float64"]
       [] f = "BabyMovement"  -> [tag |-> "mv",   typ |-> "int"]
       [] f = "Mvb"           -> [tag |-> "mvb",  typ |-> "int"]
       [] f = "Onm"           -> [tag |-> "onm",  typ |-> "int"]
       [] f = "Ota"           -> [tag |-> "ota",  typ |-> "int"]
       [] f = "Oxygen"        -> [tag |-> "ox",   typ |-> "int"]
       [] f = "Oxta"          -> [tag |-> "oxta", typ |-> "int"]
       [] f = "Rsi"           -> [tag |-> "rsi",  typ |-> "int"]
       [] f = "Sb"            -> [tag |-> "sb",   typ |-> "int"]
       [] f = "Sc"            -> [tag |-> "sc",   typ |-> "int"]
       [] f = "Srf"           -> [tag |-> "srf",  typ |-> "int"]
       [] f = "Ss"            -> [tag |-> "ss",   typ |-> "int"]
       [] f = "St"            -> [tag |-> "st",   typ |-> "int"]]

\* Whether encoding/json stores JSON value j through a pointer to Go type typ.
JSONFits(j, typ) ==
  CASE typ = "int"     -> j.t = "int"
    [] typ = "float64" -> j.t \in {"int", "float"}
    [] typ = "string"  -> j.t = "str"

\* json.Unmarshal([]byte(valueStr), &vitals).  A text is [json |-> FALSE] (not a
\* JSON document), [json |-> TRUE, object |-> FALSE] (a document that is no
\* object) or [json |-> TRUE, object |-> TRUE, obj |-> key -> JSON value].
\* The result: err, and vitals, the non-nil fields with what they point to.
\* A key that is missing or null leaves the pointer nil; a value of the wrong
\* type is an error (the other fields are still stored).
Unmarshal(text) ==
  IF ~text.json \/ ~text.object
  THEN [err |-> TRUE, vitals |-> <<>>]
  ELSE LET obj  == text.obj
           set  == {f \in DOMAIN VitalsFields :
                      /\ VitalsFields[f].tag \in DOMAIN obj
                      /\ obj[VitalsFields[f].tag].t # "null"
                      /\ JSONFits(obj[VitalsFields[f].tag], VitalsFields[f].typ)}
           bad  == {f \in DOMAIN VitalsFields :
                      /\ VitalsFields[f].tag \in DOMAIN obj
                      /\ obj[VitalsFields[f].tag].t # "null"
                      /\ ~JSONFits(obj[VitalsFields[f].tag], VitalsFields[f].typ)}
       IN  [err    |-> bad # {},
            vitals |-> [f \in set |-> obj[VitalsFields[f].tag]]]

\* A marshaller that also rejects a float64.
MarshalIndentErrOnFloat(vitals) ==
  \E f \in DOMAIN vitals : vitals[f].t \notin {"int", "str"}

\* json.MarshalIndent(vitals, "", "  ") returns an error only for a value JSON
\* cannot express (a NaN or infinite float64).
MarshalIndentErr(vitals) ==
  \E f \in DOMAIN vitals : vitals[f].t \notin {"int", "float", "str"}

\* ------------------------------------------------- upstream response bodies
\* Strings the REAL_TIME_VITALS property may carry.
TxtFull ==
  [json |-> TRUE, object |-> TRUE,
   obj  |-> ("hr" :> JInt(142)) @@ ("ox" :> JInt(98)) @@ ("bat" :> JInt(80))
            @@ ("chg" :> JInt(1)) @@ ("bso" :> JInt(1)) @@ ("btt" :> JInt(300))
            @@ ("mv" :> JInt(2))]
\* hr, bat and btt missing, bso null, chg zero, two unpublished fields.
TxtSparse ==
  [json |-> TRUE, object |-> TRUE,
   obj  |-> ("ox" :> JInt(97)) @@ ("chg" :> JInt(0)) @@ ("bso" :> JNull)
            @@ ("mv" :> JInt(0)) @@ ("alrt" :> JInt(1)) @@ ("mst" :> JFloat(3))]
\* Not JSON.
TxtGarbage == [json |-> FALSE, object |-> FALSE, obj |-> <<>>]
\* A JSON object whose hr is a string.
TxtWrongType ==
  [json |-> TRUE, object |-> TRUE,
   obj  |-> ("hr" :> JStr("x")) @@ ("ox" :> JInt(99))]

Prop(name, value) ==
  [Name |-> name, Value |-> value, DataUpdatedAt |-> "2025-01-01T00:00:00Z"]

\* Bodies of the property-listing endpoint: sequences of properties.
PropLists ==
  { <<Prop("REAL_TIME_VITALS", JStr(TxtFull))>>,
    <<Prop("APP_ACTIVE", JInt(1)), Prop("REAL_TIME_VITALS", JStr(TxtSparse))>>,
    <<Prop("REAL_TIME_VITALS", JStr(TxtFull)), Prop("APP_ACTIVE", JInt(1)),
      Prop("REAL_TIME_VITALS", JStr(TxtSparse))>>,
    <<Prop("REAL_TIME_VITALS", JStr(TxtGarbage))>>,
    <<Prop("REAL_TIME_VITALS", JStr(TxtWrongType))>>,
    <<Prop("REAL_TIME_VITALS", JNull)>>,
    <<Prop("REAL_TIME_VITALS", JInt(7))>>,
    <<Prop("APP_ACTIVE", JInt(1))>> }

\* Bodies of the device-listing endpoint: the serial numbers of the account's
\* devices, one entry per device.
DeviceLists == {<<>>, <<"d1">>, <<"d1", "d2">>}

\* What one HTTP round trip gives back: a transport error (httpClient.Do
\* returned err), or a status with a body; body "undecodable" fails Decode.
Undecodable == [decodable |-> FALSE]
Body(v) == [decodable |-> TRUE, value |-> v]
Responses(bodies) ==
  {[err |-> TRUE, status |-> 0, body |-> Undecodable]}
  \cup {[err |-> FALSE, status |-> s, body |-> b] :
          s \in Statuses, b \in {Undecodable} \cup {Body(v) : v \in bodies}}

\* ------------------------------------------------------------------ state
VARIABLES
  env,          \* the process environment (never written by the program)
  now,          \* time.Now()
  phase,        \* "STARTUP" (loop() before the for), "STEADY", "EXITED"
  pc,           \* where the goroutine running loop() is
  authToken,    \* global authToken
  expireTime,   \* global expireTime
  region,       \* global region
  dsns,         \* global dsns
  gauges,       \* vitalsGaugeVecs: metric name -> (dsn -> value) of the series set so far
  jwt,          \* login(): local jwt
  miniToken,    \* login(): local miniToken
  loginRet,     \* what the last login() call returned: "none" before any, "nil", or the error
  exitErr,      \* the error fatal() was called with
  idx,          \* fetchProps(): position of the range over dsns
  allProps,     \* runMonitoringCycle(): allDeviceProps, dsn -> (name -> Property)
  toRecord,     \* runMonitoringCycle(): keys the range over allDeviceProps has not visited
  reqs,         \* history: HTTP requests issued since the process or the cycle started
  gauges0,      \* history: gauges when the current cycle started
  recorded,     \* history: recordVitals calls of the current cycle, in order
  issued,       \* history: when the last successful login installed its session, and its ttl
  scraped       \* history: what the metrics responder read since the last step of
                \* loop(), <<metric, dsn, value>>, or <<>>

vars ==
  <<env, now, phase, pc, authToken, expireTime, region, dsns, gauges, jwt,
    miniToken, loginRet, exitErr, idx, allProps, toRecord, reqs, gauges0, recorded,
    issued, scraped>>

NoGauges == [m \in MetricNames |-> <<>>]

Init ==
  /\ env \in Envs
  /\ now = 0
  /\ phase = "STARTUP"
  /\ pc = "login"
  /\ authToken = ""
  /\ expireTime = 0
  /\ region = ""
  /\ dsns = <<>>
  /\ gauges = NoGauges
  /\ jwt = ""
  /\ miniToken = ""
  /\ loginRet = "none"
  /\ exitErr = "none"
  /\ idx = 0
  /\ allProps = <<>>
  /\ toRecord = {}
  /\ reqs = <<>>
  /\ gauges0 = NoGauges
  /\ recorded = <<>>
  /\ issued = [done |-> FALSE, at |-> 0, ttl |-> 0]
  /\ scraped = <<>>

\* A blocking call that takes d seconds.
Elapse(d) == /\ now + d <= MaxTime
             /\ now' = now + d

\* authToken != "" && time.Now().Before(expireTime)
SessionValid == authToken # "" /\ now < expireTime

\* resp.StatusCode != http.StatusOK
Not200(resp) == resp.status # 200
\* resp.StatusCode < http.StatusOK || resp.StatusCode >= http.StatusMultipleChoices
Not2xx(resp) == resp.status < 200 \/ resp.status >= 300

\* m[k] = v of a Go map.
MapPut(m, k, v) == [x \in DOMAIN m \cup {k} |-> IF x = k THEN v ELSE m[x]]

\* One request of the history: the endpoint, the region-specific address or key
\* it is sent to, the credential it carries, the device it is about, and whether
\* the caller took the round trip as a success; body is the property list a
\* successful property-listing request was answered with (<<>> otherwise).
Req(kind, to, auth, dsn, ok) ==
  [kind |-> kind, to |-> to, auth |-> auth, dsn |-> dsn, ok |-> ok, body |-> <<>>]

\* --------------------------------------------------------------- login()
\* A cycle that goes on to fetchProps whatever login() returned.
LoginReturnIgnored(err) ==
  /\ loginRet' = err
  /\ jwt' = ""
  /\ miniToken' = ""
  /\ IF phase = "STARTUP"
     THEN /\ phase' = IF err # "nil" THEN "EXITED" ELSE phase
          /\ pc' = IF err # "nil" THEN "exit" ELSE "fetchDSN"
          /\ exitErr' = IF err # "nil" THEN err ELSE exitErr
          /\ idx' = idx
     ELSE /\ phase' = phase
          /\ exitErr' = exitErr
          /\ idx' = 1
          /\ pc' = IF Len(dsns) >= 1 THEN "reactivate" ELSE "wait"

\* A cycle that returns to the ticker at once when login() failed, without the
\* sleep.
LoginReturnNoSleep(err) ==
  /\ loginRet' = err
  /\ jwt' = ""
  /\ miniToken' = ""
  /\ IF phase = "STARTUP"
     THEN /\ phase' = IF err # "nil" THEN "EXITED" ELSE phase
          /\ pc' = IF err # "nil" THEN "exit" ELSE "fetchDSN"
          /\ exitErr' = IF err # "nil" THEN err ELSE exitErr
          /\ idx' = idx
     ELSE /\ phase' = phase
          /\ exitErr' = exitErr
          /\ idx' = IF err # "nil" THEN idx ELSE 1
          /\ pc' = IF err # "nil" THEN "wait"
                   ELSE IF Len(dsns) >= 1 THEN "reactivate" ELSE "wait"

\* login() returns err ("nil": no error) to its caller: loop() before the for
\* (fatal on error, else fetchDSN) or runMonitoringCycle (sleep on error, else
\* fetchProps, whose range over dsns starts).
LoginReturn(err) ==
  /\ loginRet' = err
  /\ jwt' = ""
  /\ miniToken' = ""
  /\ IF phase = "STARTUP"
     THEN /\ phase' = IF err # "nil" THEN "EXITED" ELSE phase
          /\ pc' = IF err # "nil" THEN "exit" ELSE "fetchDSN"
          /\ exitErr' = IF err # "nil" THEN err ELSE exitErr
          /\ idx' = idx
     ELSE /\ phase' = phase
          /\ exitErr' = exitErr
          /\ idx' = IF err # "nil" THEN idx ELSE 1
          /\ pc' = IF err # "nil" THEN "sleep"
                   ELSE IF Len(dsns) >= 1 THEN "reactivate" ELSE "wait"

\* A lookup that falls back to the default region for an unknown identifier too.
LoginRegionFallback ==
  IF env.OWLET_REGION \notin {"world", "europe"} THEN "europe" ELSE env.OWLET_REGION

\* A default of "world" for an empty OWLET_REGION.
LoginRegionWorldDefault ==
  IF env.OWLET_REGION = "" THEN "world" ELSE env.OWLET_REGION

\* The region login() settles on: os.Getenv("OWLET_REGION"), "europe" when empty.
LoginRegion == IF env.OWLET_REGION = "" THEN "europe" ELSE env.OWLET_REGION

\* login() up to its first HTTP call: the cached-session test, the environment
\* and the region lookup.
Login ==
  /\ pc = "login"
  /\ IF SessionValid
     THEN /\ LoginReturn("nil")
          /\ region' = region
     ELSE /\ region' = LoginRegion
          /\ IF env.OWLET_USER = "" \/ env.OWLET_PASS = ""
             THEN LoginReturn("OWLET_USER or OWLET_PASS env var is not defined")
             ELSE IF LoginRegion \notin DOMAIN regionConfs
             THEN LoginReturn("OWLET_REGION env var not recognised")
             ELSE /\ pc' = "hop1"
                  /\ UNCHANGED <<loginRet, jwt, miniToken, phase, exitErr, idx>>
  /\ scraped' = <<>>
  /\ UNCHANGED <<env, now, authToken, expireTime, dsns, gauges, allProps,
                 toRecord, reqs, gauges0, recorded, issued>>

\* What a hop of login() returns early with, "nil" when it goes on: the
\* transport error, the status error (statusMsg) or the decoder's error.
HopErr(resp, statusMsg) ==
  IF resp.err THEN "transport error"
  ELSE IF Not200(resp) THEN statusMsg
  ELSE IF ~resp.body.decodable THEN "decode error"
  ELSE "nil"

\* A first hop whose failure does not end login(): the mini-token exchange
\* follows with an empty jwt.
Hop1GoesOn ==
  /\ pc = "hop1"
  /\ \E resp \in Responses({[idToken |-> "jwt"]}), d \in Durations :
       LET err == HopErr(resp, "google auth failed with status") IN
       /\ Elapse(d)
       /\ reqs' = Append(reqs, Req("verifyPassword", regionConfs[region].APIKey,
                                   "", "", err = "nil"))
       /\ jwt' = IF err # "nil" THEN "" ELSE resp.body.value.idToken
       /\ pc' = "hop2"
       /\ UNCHANGED <<loginRet, miniToken, phase, exitErr, idx>>
  /\ scraped' = <<>>
  /\ UNCHANGED <<env, authToken, expireTime, region, dsns, gauges, allProps,
                 toRecord, gauges0, recorded, issued>>

\* 1. Authenticate against Firebase.
Hop1 ==
  /\ pc = "hop1"
  /\ \E resp \in Responses({[idToken |-> "jwt"]}), d \in Durations :
       LET err == HopErr(resp, "google auth failed with status") IN
       /\ Elapse(d)
       /\ reqs' = Append(reqs, Req("verifyPassword", regionConfs[region].APIKey,
                                   "", "", err = "nil"))
       /\ IF err # "nil"
          THEN LoginReturn(err)
          ELSE /\ jwt' = resp.body.value.idToken
               /\ pc' = "hop2"
               /\ UNCHANGED <<loginRet, miniToken, phase, exitErr, idx>>
  /\ scraped' = <<>>
  /\ UNCHANGED <<env, authToken, expireTime, region, dsns, gauges, allProps,
                 toRecord, gauges0, recorded, issued>>

\* 2. Get mini_token.
Hop2 ==
  /\ pc = "hop2"
  /\ \E resp \in Responses({[mini_token |-> "mini"]}), d \in Durations :
       LET err == HopErr(resp, "mini token fetch failed with status") IN
       /\ Elapse(d)
       /\ reqs' = Append(reqs, Req("mini", regionConfs[region].URLMini, jwt, "",
                                   err = "nil"))
       /\ IF err # "nil"
          THEN LoginReturn(err)
          ELSE /\ miniToken' = resp.body.value.mini_token
               /\ pc' = "hop3"
               /\ UNCHANGED <<loginRet, jwt, phase, exitErr, idx>>
  /\ scraped' = <<>>
  /\ UNCHANGED <<env, authToken, expireTime, region, dsns, gauges, allProps,
                 toRecord, gauges0, recorded, issued>>

\* An expiry without the margin: the whole ttl after the install.
NewExpireTimeNoMargin(t, expiresIn) == t + expiresIn

\* An expiry with a margin one interval longer.
NewExpireTimeEarly(t, expiresIn) == t + (expiresIn - Margin) - TickInterval

\* expireTime = time.Now().Add(time.Duration(ExpiresIn-60) * time.Second)
NewExpireTime(t, expiresIn) == t + (expiresIn - Margin)

\* A login that stores the token as soon as the body decodes, before the
\* status test.
SessionAfterEager(resp, err, t) ==
  IF err = "nil"
  THEN [authToken  |-> resp.body.value.access_token,
        expireTime |-> NewExpireTime(t, resp.body.value.expires_in)]
  ELSE IF ~resp.err /\ resp.body.decodable
  THEN [authToken |-> resp.body.value.access_token, expireTime |-> expireTime]
  ELSE [authToken |-> authToken, expireTime |-> expireTime]

\* The globals authToken and expireTime after hop 3 answered at time t: both are
\* assigned after the last early return of login(), and nowhere else.
SessionAfter(resp, err, t) ==
  IF err = "nil"
  THEN [authToken  |-> resp.body.value.access_token,
        expireTime |-> NewExpireTime(t, resp.body.value.expires_in)]
  ELSE [authToken |-> authToken, expireTime |-> expireTime]

\* 3. Get Ayla access_token; on success the session is installed.
Hop3 ==
  /\ pc = "hop3"
  /\ \E resp \in Responses([access_token : Tokens, expires_in : TTLs]), d \in Durations :
       LET err == HopErr(resp, "ayla auth failed with status") IN
       /\ Elapse(d)
       /\ reqs' = Append(reqs, Req("token_sign_in", regionConfs[region].URLSignin,
                                   miniToken, "", err = "nil"))
       /\ authToken' = SessionAfter(resp, err, now').authToken
       /\ expireTime' = SessionAfter(resp, err, now').expireTime
       /\ issued' = IF err = "nil"
                    THEN [done |-> TRUE, at |-> now', ttl |-> resp.body.value.expires_in]
                    ELSE issued
       /\ LoginReturn(err)
  /\ scraped' = <<>>
  /\ UNCHANGED <<env, region, dsns, gauges, allProps, toRecord, gauges0, recorded>>

\* ------------------------------------------------------------- fetchDSN()
\* fatal(err): log.Fatal, the process exits.
Fatal(err) ==
  /\ phase' = "EXITED"
  /\ pc' = "exit"
  /\ exitErr' = err

\* fetchDSN() returned nil: loop() creates the ticker and enters its for.
EnterSteady ==
  /\ phase' = "STEADY"
  /\ pc' = "cycle"
  /\ exitErr' = exitErr

\* A discovery that accepts an empty list.
ZeroDevicesAccepted(devices) == FALSE

\* len(devices) == 0
ZeroDevices(devices) == Len(devices) = 0

\* A fetchDSN() without the test of the cached list.
DSNCachedNever == FALSE

\* len(dsns) > 0: fetchDSN() returns nil at once.
DSNCached == Len(dsns) > 0

\* fetchDSN(), called once by loop() after the first login().
FetchDSN ==
  /\ pc = "fetchDSN"
  /\ IF DSNCached
     THEN /\ EnterSteady
          /\ UNCHANGED <<now, dsns, reqs>>
     ELSE \E resp \in Responses(DeviceLists), d \in Durations :
            LET err == IF resp.err THEN "transport error"
                       ELSE IF Not2xx(resp) THEN "fetch dsn failed with status"
                       ELSE IF ~resp.body.decodable THEN "decode error"
                       ELSE IF ZeroDevices(resp.body.value) THEN "found zero Owlet monitors"
                       ELSE "nil"
            IN  /\ Elapse(d)
                /\ reqs' = Append(reqs, Req("devices", regionConfs[region].URLBase,
                                            authToken, "", err = "nil"))
                /\ IF err # "nil"
                   THEN Fatal(err) /\ dsns' = dsns
                   ELSE dsns' = dsns \o resp.body.value /\ EnterSteady
  /\ scraped' = <<>>
  /\ UNCHANGED <<env, authToken, expireTime, region, gauges, jwt, miniToken,
                 loginRet, idx, allProps, toRecord, gauges0, recorded, issued>>

\* ------------------------------------------------------ runMonitoringCycle()
\* The for of loop() calls runMonitoringCycle(), which calls login() first.
\* The locals and the histories of the cycle start empty.
BeginCycle ==
  /\ pc' = "login"
  /\ allProps' = <<>>
  /\ toRecord' = {}
  /\ reqs' = <<>>
  /\ gauges0' = gauges
  /\ recorded' = <<>>
  /\ loginRet' = "none"

\* "Initial run without waiting for ticker": the first cycle.
FirstCycle ==
  /\ pc = "cycle"
  /\ BeginCycle
  /\ scraped' = <<>>
  /\ UNCHANGED <<env, now, phase, authToken, expireTime, region, dsns, gauges,
                 jwt, miniToken, exitErr, idx, issued>>

\* time.Sleep(5 * time.Second) after login() failed; the cycle then returns.
Sleep ==
  /\ pc = "sleep"
  /\ Elapse(BackoffSleep)
  /\ pc' = "wait"
  /\ scraped' = <<>>
  /\ UNCHANGED <<env, phase, authToken, expireTime, region, dsns, gauges, jwt,
                 miniToken, loginRet, exitErr, idx, allProps, toRecord, reqs,
                 gauges0, recorded, issued>>

\* select on ticker.C, then continue: the tick is already pending or arrives
\* within the interval, and the next cycle starts.
\* context.Background().Done() is a nil channel and never fires.
WaitTick ==
  /\ pc = "wait"
  /\ \E d \in {0, TickInterval} : Elapse(d)
  /\ BeginCycle
  /\ scraped' = <<>>
  /\ UNCHANGED <<env, phase, authToken, expireTime, region, dsns, gauges, jwt,
                 miniToken, exitErr, idx, issued>>

\* ----------------------------------------------------------- fetchProps()
\* A fetchProps() that reports an error when a device is missing from its result.
FetchPropsErrOnFailure(ap) ==
  IF DOMAIN ap # {dsns[i] : i \in DOMAIN dsns} THEN "device failed" ELSE "nil"

\* The error fetchProps() returns with the mapping ap: "return allProps, nil"
\* is its only return statement.
FetchPropsErr(ap) == "nil"

\* A range over the map that is entered even when the map has no key, and then
\* waits for a key.
RangeStartNeedsKey(ap) ==
  /\ toRecord' = DOMAIN ap
  /\ pc' = "record"

\* fetchProps() returned (ap, err): on an error runMonitoringCycle logs "Error
\* fetching props" and returns; else it ranges over the map, and returns when
\* it has no key.
RangeStart(ap) ==
  IF FetchPropsErr(ap) # "nil"
  THEN /\ toRecord' = {}
       /\ pc' = "wait"
  ELSE /\ toRecord' = DOMAIN ap
       /\ pc' = IF DOMAIN ap = {} THEN "wait" ELSE "record"

\* A range over dsns that leaves out every other device.
NextDeviceSkipping(ap) ==
  /\ idx' = idx + 2
  /\ IF idx + 2 <= Len(dsns)
     THEN pc' = "reactivate" /\ toRecord' = toRecord
     ELSE RangeStart(ap)

\* continue, or the end of the range over dsns.
NextDevice(ap) ==
  /\ idx' = idx + 1
  /\ IF idx + 1 <= Len(dsns)
     THEN pc' = "reactivate" /\ toRecord' = toRecord
     ELSE RangeStart(ap)

\* A best-effort reactivation: the fetch follows whatever it returned.
ContinueNever(failed) == FALSE

\* Whether fetchProps leaves the device at "continue" when reactivate(dsn)
\* returned err, failed telling whether it did.
ContinueAfterReactivate(failed) == failed

\* reactivate(dsn) and what fetchProps does with its result.
Reactivate ==
  /\ pc = "reactivate"
  /\ \E resp \in Responses({"ok"}), d \in Durations :
       LET failed == resp.err \/ Not2xx(resp) IN
       /\ Elapse(d)
       /\ reqs' = Append(reqs, Req("reactivate", regionConfs[region].URLBase,
                                   authToken, dsns[idx], ~failed))
       /\ IF ContinueAfterReactivate(failed)
          THEN NextDevice(allProps)
          ELSE pc' = "properties" /\ UNCHANGED <<idx, toRecord>>
  /\ scraped' = <<>>
  /\ UNCHANGED <<env, phase, authToken, expireTime, region, dsns, gauges, jwt,
                 miniToken, loginRet, exitErr, allProps, gauges0, recorded, issued>>

\* A fold that keeps the first property of each name.
RECURSIVE FoldPropsFirstWins(_, _)
FoldPropsFirstWins(m, props) ==
  IF props = <<>> THEN m
  ELSE IF Head(props).Name \in DOMAIN m
  THEN FoldPropsFirstWins(m, Tail(props))
  ELSE FoldPropsFirstWins(MapPut(m, Head(props).Name, Head(props)), Tail(props))

\* deviceProps[p.Property.Name] = p.Property for each p of props, in order.
RECURSIVE FoldProps(_, _)
FoldProps(m, props) ==
  IF props = <<>> THEN m
  ELSE FoldProps(MapPut(m, Head(props).Name, Head(props)), Tail(props))

\* A fetch that leaves an empty entry for a device whose round trip failed.
FetchedPropsEmptyEntry(ap, dsn, resp) ==
  IF resp.err \/ Not200(resp) \/ ~resp.body.decodable
  THEN MapPut(ap, dsn, <<>>)
  ELSE MapPut(ap, dsn, FoldProps(<<>>, resp.body.value))

\* allProps after the property-list round trip of device dsn: the three
\* failures continue before allProps[dsn] is assigned.
FetchedProps(ap, dsn, resp) ==
  IF resp.err \/ Not200(resp) \/ ~resp.body.decodable
  THEN ap
  ELSE MapPut(ap, dsn, FoldProps(<<>>, resp.body.value))

\* The property-list request of fetchProps for dsns[idx] and what follows it.
FetchProperties ==
  /\ pc = "properties"
  /\ \E resp \in Responses(PropLists), d \in Durations :
       LET failed == resp.err \/ Not200(resp) \/ ~resp.body.decodable
           ap == FetchedProps(allProps, dsns[idx], resp)
       IN  /\ Elapse(d)
           /\ reqs' = Append(reqs,
                [Req("properties", regionConfs[region].URLBase, authToken,
                     dsns[idx], ~failed)
                   EXCEPT !.body = IF failed THEN <<>> ELSE resp.body.value])
           /\ allProps' = ap
           /\ NextDevice(ap)
  /\ scraped' = <<>>
  /\ UNCHANGED <<env, phase, authToken, expireTime, region, dsns, gauges, jwt,
                 miniToken, loginRet, exitErr, gauges0, recorded, issued>>

\* ----------------------------------------------------------- recordVitals()
\* A Set that starts the gauge's series afresh: the series of the other devices
\* are gone.
GaugeSetFresh(g, name, dsn, v) == [g EXCEPT ![name] = (dsn :> v)]

\* vitalsGaugeVecs[name].With(prometheus.Labels{"dsn": dsn}).Set(float64(v)):
\* the conversion is exact for every int of the model.  With creates the series
\* of the label when it has none, and Set stores the value in one atomic write.
GaugeSet(g, name, dsn, v) == [g EXCEPT ![name] = MapPut(@, dsn, v)]

\* A publish that writes 0 for a field the record does not carry.
UpdateMetricsZeroAbsent(g, dsn, vitals) ==
  LET val(f) == IF f \in DOMAIN vitals THEN vitals[f].v ELSE 0
      g1 == GaugeSet(g, "heart_rate", dsn, val("HeartRate"))
      g2 == GaugeSet(g1, "oxygen_level", dsn, val("Oxygen"))
      g3 == GaugeSet(g2, "base_battery_level", dsn, val("BaseBattery"))
      g4 == GaugeSet(g3, "charging_status", dsn, val("Charging"))
      g5 == GaugeSet(g4, "base_station_on", dsn, val("Bso"))
      g6 == GaugeSet(g5, "sensor_battery", dsn, val("SensorBattery"))
      g7 == GaugeSet(g6, "baby_movement", dsn, val("BabyMovement"))
  IN  g7

\* A publish whose heart-rate and oxygen gauges are fed from each other's field.
UpdateMetricsSwapped(g, dsn, vitals) ==
  LET g1 == IF "HeartRate" \in DOMAIN vitals
            THEN GaugeSet(g, "oxygen_level", dsn, vitals["HeartRate"].v) ELSE g
      g2 == IF "Oxygen" \in DOMAIN vitals
            THEN GaugeSet(g1, "heart_rate", dsn, vitals["Oxygen"].v) ELSE g1
      g3 == IF "BaseBattery" \in DOMAIN vitals
            THEN GaugeSet(g2, "base_battery_level", dsn, vitals["BaseBattery"].v) ELSE g2
      g4 == IF "Charging" \in DOMAIN vitals
            THEN GaugeSet(g3, "charging_status", dsn, vitals["Charging"].v) ELSE g3
      g5 == IF "Bso" \in DOMAIN vitals
            THEN GaugeSet(g4, "base_station_on", dsn, vitals["Bso"].v) ELSE g4
      g6 == IF "SensorBattery" \in DOMAIN vitals
            THEN GaugeSet(g5, "sensor_battery", dsn, vitals["SensorBattery"].v) ELSE g5
      g7 == IF "BabyMovement" \in DOMAIN vitals
            THEN GaugeSet(g6, "baby_movement", dsn, vitals["BabyMovement"].v) ELSE g6
  IN  g7

\* The seven conditional Sets of recordVitals, in the order of the code.
UpdateMetrics(g, dsn, vitals) ==
  LET g1 == IF "HeartRate" \in DOMAIN vitals
            THEN GaugeSet(g, "heart_rate", dsn, vitals["HeartRate"].v) ELSE g
      g2 == IF "Oxygen" \in DOMAIN vitals
            THEN GaugeSet(g1, "oxygen_level", dsn, vitals["Oxygen"].v) ELSE g1
      g3 == IF "BaseBattery" \in DOMAIN vitals
            THEN GaugeSet(g2, "base_battery_level", dsn, vitals["BaseBattery"].v) ELSE g2
      g4 == IF "Charging" \in DOMAIN vitals
            THEN GaugeSet(g3, "charging_status", dsn, vitals["Charging"].v) ELSE g3
      g5 == IF "Bso" \in DOMAIN vitals
            THEN GaugeSet(g4, "base_station_on", dsn, vitals["Bso"].v) ELSE g4
      g6 == IF "SensorBattery" \in DOMAIN vitals
            THEN GaugeSet(g5, "sensor_battery", dsn, vitals["SensorBattery"].v) ELSE g5
      g7 == IF "BabyMovement" \in DOMAIN vitals
            THEN GaugeSet(g6, "baby_movement", dsn, vitals["BabyMovement"].v) ELSE g6
  IN  g7

\* A recordVitals that publishes whatever json.Unmarshal stored, error or not.
RecordVitalsIgnoresErr(g, dsn, props) ==
  IF "REAL_TIME_VITALS" \notin DOMAIN props
  THEN [gauges |-> g, decoded |-> FALSE, fatal |-> FALSE]
  ELSE LET rtv == props["REAL_TIME_VITALS"] IN
       IF rtv.Value.t # "str"
       THEN [gauges |-> g, decoded |-> FALSE, fatal |-> FALSE]
       ELSE LET u == Unmarshal(rtv.Value.s) IN
            [gauges  |-> UpdateMetrics(g, dsn, u.vitals),
             decoded |-> ~u.err,
             fatal   |-> FALSE]

\* recordVitals(dsn, props): the gauges it leaves, whether it decoded a vitals
\* record, and whether it ended in log.Fatalf.
RecordVitals(g, dsn, props) ==
  IF "REAL_TIME_VITALS" \notin DOMAIN props
  THEN [gauges |-> g, decoded |-> FALSE, fatal |-> FALSE]
  ELSE LET rtv == props["REAL_TIME_VITALS"] IN
       IF rtv.Value.t = "null"
       THEN [gauges |-> g, decoded |-> FALSE, fatal |-> FALSE]
       ELSE IF rtv.Value.t # "str"
       THEN [gauges |-> g, decoded |-> FALSE, fatal |-> FALSE]
       ELSE LET u == Unmarshal(rtv.Value.s) IN
            IF u.err
            THEN [gauges |-> g, decoded |-> FALSE, fatal |-> FALSE]
            ELSE [gauges  |-> UpdateMetrics(g, dsn, u.vitals),
                  decoded |-> TRUE,
                  fatal   |-> MarshalIndentErr(u.vitals)]

\* One iteration of the range over allDeviceProps: Go visits the keys of a map
\* in an order it does not specify.
Record ==
  /\ pc = "record"
  /\ \E dsn \in toRecord :
       LET r == RecordVitals(gauges, dsn, allProps[dsn]) IN
       /\ gauges' = r.gauges
       /\ recorded' = Append(recorded, dsn)
       /\ toRecord' = toRecord \ {dsn}
       /\ IF r.fatal
          THEN Fatal("failed to marshal JSON")
          ELSE /\ pc' = IF toRecord \ {dsn} = {} THEN "wait" ELSE "record"
               /\ UNCHANGED <<phase, exitErr>>
  /\ scraped' = <<>>
  /\ UNCHANGED <<env, now, authToken, expireTime, region, dsns, jwt, miniToken,
                 loginRet, idx, allProps, reqs, gauges0, issued>>

\* --------------------------------------------------------------- the loop
Next ==
  \/ Login
  \/ Hop1
  \/ Hop2
  \/ Hop3
  \/ FetchDSN
  \/ FirstCycle
  \/ Sleep
  \/ WaitTick
  \/ Reactivate
  \/ FetchProperties
  \/ Record

Spec == Init /\ [][Next]_vars

\* ------------------------------------------------------ the metrics responder
\* The dsn labels a scrape can find a series for.
Labels == UNION {{l[i] : i \in DOMAIN l} : l \in DeviceLists}

\* The goroutine main() starts before loop(): promhttp.Handler() answers a
\* scrape by reading the registered gauges while loop() runs.  One step is the
\* read of the series of one gauge and one label, an atomic load of the value
\* that Set stores; it finds no series when With has not been called for the
\* label.  The read of a pair falls before or after the one Set that
\* recordVitals does for that pair, that is before or after its Record step.
\* A second read before the next step of loop() would return what the first did.
Scrape ==
  /\ phase # "EXITED"
  /\ scraped = <<>>
  /\ \E m \in MetricNames, d \in Labels :
       scraped' = <<m, d, IF d \in DOMAIN gauges[m] THEN <<gauges[m][d]>> ELSE <<>>>>
  /\ UNCHANGED <<env, now, phase, pc, authToken, expireTime, region, dsns, gauges,
                 jwt, miniToken, loginRet, exitErr, idx, allProps, toRecord, reqs,
                 gauges0, recorded, issued>>

\* The process is started with credentials and OWLET_REGION=world, one ticker
\* interval before the clock of the model ends.
InitLate ==
  /\ env \in Envs
  /\ env.OWLET_USER # ""
  /\ env.OWLET_REGION = "world"
  /\ now = MaxTime - TickInterval
  /\ phase = "STARTUP"
  /\ pc = "login"
  /\ authToken = ""
  /\ expireTime = 0
  /\ region = ""
  /\ dsns = <<>>
  /\ gauges = NoGauges
  /\ jwt = ""
  /\ miniToken = ""
  /\ loginRet = "none"
  /\ exitErr = "none"
  /\ idx = 0
  /\ allProps = <<>>
  /\ toRecord = {}
  /\ reqs = <<>>
  /\ gauges0 = NoGauges
  /\ recorded = <<>>
  /\ issued = [done |-> FALSE, at |-> 0, ttl |-> 0]
  /\ scraped = <<>>

\* loop() with the metrics responder running beside it.
NextScrape ==
  \/ Next
  \/ Scrape

SpecScrape == InitLate /\ [][NextScrape]_vars

\* The goroutine of loop() keeps running: every HTTP round trip returns or
\* times out (httpClient has a timeout), the sleep ends and the ticker fires, so
\* a step that can be taken is eventually taken.
\* The process is started with credentials and OWLET_REGION=world.
InitWorld ==
  /\ Init
  /\ env.OWLET_USER # ""
  /\ env.OWLET_REGION = "world"

FairSpec == InitWorld /\ [][Next]_vars /\ WF_vars(Next)

\* fetchDSN() entered with a list already in dsns and a session installed at
\* time 0.  loop() calls fetchDSN() once, with dsns empty, so no behaviour of
\* Spec takes the first return of fetchDSN(); SpecCached adds the behaviours
\* that start at such a call, and go on as loop() does after fetchDSN().
InitCached ==
  /\ env \in {e \in Envs : e.OWLET_USER # "" /\ e.OWLET_REGION \in {"", "world", "europe"}}
  /\ now = 0
  /\ phase = "STARTUP"
  /\ pc = "fetchDSN"
  /\ authToken \in Tokens \ {""}
  /\ \E ttl \in TTLs :
       /\ expireTime = NewExpireTime(0, ttl)
       /\ issued = [done |-> TRUE, at |-> 0, ttl |-> ttl]
  /\ region = LoginRegion
  /\ dsns \in DeviceLists \ {<<>>}
  /\ gauges = NoGauges
  /\ jwt = ""
  /\ miniToken = ""
  /\ loginRet = "nil"
  /\ exitErr = "none"
  /\ idx = 0
  /\ allProps = <<>>
  /\ toRecord = {}
  /\ reqs = <<>>
  /\ gauges0 = NoGauges
  /\ recorded = <<>>
  /\ scraped = <<>>

SpecCached == (Init \/ InitCached) /\ [][Next]_vars

\* ------------------------------------------------------------ the claims
Last(q) == q[Len(q)]
LoginPcs == {"login", "hop1", "hop2", "hop3"}
Devices == {dsns[i] : i \in DOMAIN dsns}

\* The step issues an HTTP request of one of the kinds.
Issues(kinds) == Len(reqs') = Len(reqs) + 1 /\ Last(reqs').kind \in kinds

\* Requests of the current cycle, by kind, device and outcome.
Asked(kind, d, ok) ==
  \E i \in DOMAIN reqs : reqs[i].kind = kind /\ reqs[i].dsn = d /\ reqs[i].ok = ok

\* The value a gauge exposes for a device: <<v>>, or <<>> while it has no series.
GaugeAt(g, m, d) == IF d \in DOMAIN g[m] THEN <<g[m][d]>> ELSE <<>>

\* A property mapping whose vitals property decodes.
Decodes(props) ==
  /\ "REAL_TIME_VITALS" \in DOMAIN props
  /\ props["REAL_TIME_VITALS"].Value.t = "str"
  /\ ~Unmarshal(props["REAL_TIME_VITALS"].Value.s).err
VitalsObj(props) == props["REAL_TIME_VITALS"].Value.s.obj

\* The payload key each published gauge shows.
MetricTag ==
  [m \in MetricNames |->
     CASE m = "heart_rate"         -> "hr"
       [] m = "oxygen_level"       -> "ox"
       [] m = "base_battery_level" -> "bat"
       [] m = "charging_status"    -> "chg"
       [] m = "base_station_on"    -> "bso"
       [] m = "sensor_battery"     -> "btt"
       [] m = "baby_movement"      -> "mv"]
PayloadHas(obj, m) == MetricTag[m] \in DOMAIN obj /\ obj[MetricTag[m]].t # "null"
\* What gauge m of device d shows once payload obj is published over g.
ExpectedAfter(g, m, d, obj) ==
  IF PayloadHas(obj, m) THEN <<obj[MetricTag[m]].v>> ELSE GaugeAt(g, m, d)

\* C1: after a login that installed a session at issued.at with ttl issued.ttl,
\* a login() call made before issued.at + issued.ttl - 60 returns nil at once,
\* issues no request and leaves token and expiry alone; login() starts its
\* three hops only when the token is absent or that time has been reached.
C1_SessionReusedUntilMargin ==
  [][ pc = "login" =>
        /\ (issued.done /\ authToken # "" /\ now < issued.at + issued.ttl - 60) =>
              /\ loginRet' = "nil"
              /\ pc' \notin LoginPcs
              /\ reqs' = reqs
              /\ authToken' = authToken
              /\ expireTime' = expireTime
        /\ pc' = "hop1" =>
              (authToken = "" \/ ~issued.done \/ now >= issued.at + issued.ttl - 60)
    ]_vars

\* A cycle whose login() returned nil without a request, after time has passed
\* since the session was installed.
C1_Witness ==
  /\ phase = "STEADY" /\ pc = "reactivate" /\ idx = 1
  /\ reqs = <<>> /\ loginRet = "nil"
  /\ issued.done /\ now > issued.at

\* C2: token and expiry change only in the step in which hop 3 succeeded and
\* login() returns nil; a step in which a hop fails returns an error and leaves
\* both as they were.
C2_NoPartialSession ==
  [][ /\ (authToken' # authToken \/ expireTime' # expireTime) =>
            /\ pc = "hop3"
            /\ loginRet' = "nil"
            /\ Last(reqs').kind = "token_sign_in" /\ Last(reqs').ok
      /\ (pc \in {"hop1", "hop2", "hop3"} /\ Len(reqs') = Len(reqs) + 1
          /\ ~Last(reqs').ok) =>
            /\ loginRet' \notin {"nil", "none"}
            /\ pc' \notin LoginPcs
            /\ authToken' = authToken
            /\ expireTime' = expireTime
    ]_vars

\* A periodic login() failed at hop 3 and the session installed before is intact.
C2_Witness ==
  /\ phase = "STEADY" /\ pc = "sleep"
  /\ Len(reqs) = 3 /\ reqs[3].kind = "token_sign_in" /\ ~reqs[3].ok
  /\ loginRet \notin {"nil", "none"}
  /\ issued.done /\ authToken # "" /\ expireTime = issued.at + issued.ttl - 60

\* C3 as stated: a device listing, reactivation or property request is issued
\* only while the token is present and now is before the stored expiry.
C3_RequestsOnlyWhileValid ==
  [][ Issues({"devices", "reactivate", "properties"}) =>
        (authToken # "" /\ now < expireTime) ]_vars

\* C3 amended: such a request is issued only after the login() call that opened
\* STARTUP or the cycle returned nil, and login() returns nil only when its own
\* test found the session valid or its hop 3 just succeeded.
C3_RequestsOnlyAfterLogin ==
  [][ /\ Issues({"devices", "reactivate", "properties"}) => loginRet = "nil"
      /\ (pc \in LoginPcs /\ loginRet' = "nil") =>
            \/ /\ pc = "login"
               /\ authToken # "" /\ now < expireTime
               /\ authToken' = authToken /\ expireTime' = expireTime
            \/ /\ pc = "hop3"
               /\ Len(reqs') >= 3
               /\ \A i \in DOMAIN reqs' : i > Len(reqs') - 3 => reqs'[i].ok
    ]_vars

\* A request went out after login() returned nil although the stored expiry
\* is not in the future.
C3_Witness ==
  /\ loginRet = "nil"
  /\ reqs # <<>> /\ Last(reqs).kind \in {"devices", "reactivate", "properties"}
  /\ now >= expireTime

\* C4 as stated: a device whose reactivation failed still has its property
\* list requested in the same cycle.
C4_FetchAfterFailedReactivation ==
  (pc \in {"record", "wait"}) =>
    \A d \in Devices :
      Asked("reactivate", d, FALSE) =>
        (Asked("properties", d, TRUE) \/ Asked("properties", d, FALSE))

\* C4 amended: a device whose reactivation failed has no property request in
\* that cycle and is absent from the mapping; the range goes on with the next
\* device and the process stays in STEADY.
C4_FailedReactivationSkipsDevice ==
  \A i \in DOMAIN reqs :
    (reqs[i].kind = "reactivate" /\ ~reqs[i].ok) =>
      /\ ~Asked("properties", reqs[i].dsn, TRUE)
      /\ ~Asked("properties", reqs[i].dsn, FALSE)
      /\ reqs[i].dsn \notin DOMAIN allProps
      /\ phase = "STEADY"
      /\ i < Len(reqs) => reqs[i + 1].kind = "reactivate"
      /\ pc \in {"record", "wait"} =>
           \A d \in Devices : Asked("reactivate", d, TRUE) \/ Asked("reactivate", d, FALSE)

\* The first device's reactivation failed, the second device was fetched.
C4_Witness ==
  /\ pc = "wait" /\ Len(dsns) = 2
  /\ Asked("reactivate", dsns[1], FALSE)
  /\ dsns[2] \in DOMAIN allProps

\* C5: at the end of a cycle in which device k's property fetch failed and every
\* other device's fetch gave a decodable vitals payload, exactly the other
\* devices were published (each gauge shows the payload's value where the
\* payload has one), every gauge of k shows what it showed when the cycle
\* started, and the process is still in STEADY.
C5_FailedFetchIsolated ==
  /\ (\E d \in Devices : Asked("properties", d, FALSE)) => phase = "STEADY"
  /\ pc = "wait" =>
       \A k \in Devices :
         ( /\ Asked("properties", k, FALSE)
           /\ \A j \in Devices \ {k} :
                Asked("properties", j, TRUE) /\ j \in DOMAIN allProps
                /\ Decodes(allProps[j]) ) =>
           /\ \A m \in MetricNames : GaugeAt(gauges, m, k) = GaugeAt(gauges0, m, k)
           /\ \A j \in Devices \ {k} : \A m \in MetricNames :
                GaugeAt(gauges, m, j) = ExpectedAfter(gauges0, m, j, VitalsObj(allProps[j]))
           /\ {recorded[i] : i \in DOMAIN recorded} = Devices \ {k}
           /\ Len(recorded) = Cardinality(Devices) - 1

\* Two devices with published values; the first one's fetch failed in this
\* cycle, the second one's payload was published.
C5_Witness ==
  /\ pc = "wait" /\ Len(dsns) = 2
  /\ Asked("properties", dsns[1], FALSE)
  /\ Asked("properties", dsns[2], TRUE)
  /\ dsns[2] \in DOMAIN allProps /\ Decodes(allProps[dsns[2]])
  /\ dsns[1] \in DOMAIN gauges0["heart_rate"]
  /\ gauges # gauges0

\* C6: a recordVitals call that decodes the payload of device d leaves each
\* published gauge of d at the payload's value when the payload carries the
\* field (0 included) and at its former state when it does not, and leaves the
\* gauges of every other device alone.
C6_PublishSetsPresentFieldsOnly ==
  [][ (pc = "record" /\ Len(recorded') = Len(recorded) + 1) =>
        LET d == Last(recorded') IN
        Decodes(allProps[d]) =>
          /\ \A m \in MetricNames :
               GaugeAt(gauges', m, d) = ExpectedAfter(gauges, m, d, VitalsObj(allProps[d]))
          /\ \A m \in MetricNames : \A e \in Devices \ {d} :
               GaugeAt(gauges', m, e) = GaugeAt(gauges, m, e)
    ]_vars

\* A payload without hr was published over earlier values: the heart rate is
\* still the earlier 142, oxygen and charging show the new payload (97 and 0).
C6_Witness ==
  /\ recorded # <<>> /\ Last(recorded) \in DOMAIN allProps
  /\ LET d == Last(recorded) IN
       /\ Decodes(allProps[d])
       /\ "hr" \notin DOMAIN VitalsObj(allProps[d])
       /\ GaugeAt(gauges, "heart_rate", d) = <<142>>
       /\ GaugeAt(gauges, "oxygen_level", d) = <<97>>
       /\ GaugeAt(gauges, "charging_status", d) = <<0>>
       /\ GaugeAt(gauges0, "oxygen_level", d) = <<98>>

\* C7: a device whose fetched properties do not decode (no vitals property, a
\* null, a value that is no string, a string that is no vitals record) has
\* every gauge at the value it had when the cycle started.
C7_DecodeFailureKeepsGauges ==
  \A d \in DOMAIN allProps :
    ~Decodes(allProps[d]) =>
      \A m \in MetricNames : GaugeAt(gauges, m, d) = GaugeAt(gauges0, m, d)

\* Both devices had values, both were recorded in this cycle, neither decoded,
\* and they failed in different ways.
C7_Witness ==
  /\ pc = "wait" /\ Len(recorded) = 2
  /\ \A d \in Devices :
       /\ d \in DOMAIN allProps /\ ~Decodes(allProps[d])
       /\ GaugeAt(gauges0, "oxygen_level", d) # <<>>
  /\ allProps[dsns[1]] # allProps[dsns[2]]

\* C8: with a region outside {world, europe} (and not empty) the process is
\* either still at its first login() or has exited with an error, and no HTTP
\* request has been issued.
C8_UnknownRegionFailsBeforeHTTP ==
  env.OWLET_REGION \notin {"", "world", "europe"} =>
    /\ reqs = <<>>
    /\ \/ phase = "STARTUP" /\ pc = "login"
       \/ phase = "EXITED" /\ pc = "exit" /\ exitErr \notin {"none", "nil"}

C8_Witness ==
  /\ env.OWLET_REGION = "mars"
  /\ phase = "EXITED"
  /\ exitErr = "OWLET_REGION env var not recognised"

\* C9: STEADY is entered only with a device list that is not empty; after the
\* zero-devices error the process has exited from STARTUP, no reactivation or
\* property request was issued, no recordVitals ran and no gauge has a series.
C9_EmptyDiscoveryIsFatal ==
  /\ phase = "STEADY" => Len(dsns) > 0
  /\ exitErr = "found zero Owlet monitors" =>
       /\ phase = "EXITED" /\ pc = "exit"
       /\ dsns = <<>>
       /\ \A i \in DOMAIN reqs : reqs[i].kind \notin {"reactivate", "properties"}
       /\ recorded = <<>>
       /\ gauges = NoGauges

C9_Witness ==
  /\ exitErr = "found zero Owlet monitors"
  /\ reqs # <<>> /\ Last(reqs).kind = "devices"

\* C10: the process exits only in a step taken in STARTUP; no step taken in
\* STEADY exits.
C10_ExitOnlyFromStartup ==
  [][ (phase' = "EXITED" /\ phase # "EXITED") => phase = "STARTUP" ]_vars

\* A STEADY cycle that ended after a failed reactivation of one device and an
\* undecodable payload of the other.
C10_Witness ==
  /\ phase = "STEADY" /\ pc = "wait" /\ Len(dsns) = 2
  /\ \E d \in Devices : Asked("reactivate", d, FALSE)
  /\ \E d \in DOMAIN allProps : ~Decodes(allProps[d])
  /\ Len(recorded) = 1

IsErr(ret) == ret \notin {"none", "nil"}

NoDeviceReqs(q) == \A i \in DOMAIN q : q[i].kind \notin {"reactivate", "properties"}

\* C11: in STEADY a login() that returns an error sends the cycle to its sleep
\* with no reactivation or property request issued, no recordVitals call and no
\* gauge changed; the sleep is entered only that way, lasts BackoffSleep seconds,
\* issues nothing and changes no gauge; and the wait that follows starts the
\* next cycle at login().
C11_LoginFailureSkipsCycle ==
  [][ /\ (phase = "STEADY" /\ pc \in LoginPcs /\ IsErr(loginRet')) =>
           /\ pc' = "sleep"
           /\ NoDeviceReqs(reqs')
           /\ recorded' = <<>> /\ allProps' = <<>>
           /\ gauges' = gauges0
      /\ pc' = "sleep" => (pc = "sleep" \/ (pc \in LoginPcs /\ IsErr(loginRet')))
      /\ pc = "sleep" =>
           /\ pc' = "wait"
           /\ now' = now + BackoffSleep
           /\ reqs' = reqs /\ gauges' = gauges /\ recorded' = recorded
      /\ (pc = "wait" /\ IsErr(loginRet)) =>
           /\ NoDeviceReqs(reqs) /\ recorded = <<>> /\ gauges = gauges0
           /\ pc' = "login" /\ loginRet' = "none" /\ phase' = "STEADY"
    ]_vars

\* A later cycle whose login() failed after an earlier cycle had published: it
\* slept and is waiting for the tick.
C11_Witness ==
  /\ phase = "STEADY" /\ pc = "wait"
  /\ IsErr(loginRet)
  /\ reqs # <<>>
  /\ gauges # NoGauges
  /\ now >= BackoffSleep

SevenTags == {"hr", "ox", "bat", "chg", "bso", "btt", "mv"}

FullPayload(props) ==
  /\ Decodes(props)
  /\ \A t \in SevenTags :
       t \in DOMAIN VitalsObj(props) /\ VitalsObj(props)[t].t = "int"

RecordsDevice(d) ==
  pc = "record" /\ Len(recorded') = Len(recorded) + 1 /\ Last(recorded') = d

\* C12: when recordVitals runs for a device whose vitals payload decodes and
\* carries an integer for each of hr, ox, bat, chg, bso, btt and mv, the decoded
\* record holds exactly the payload's value in HeartRate, Oxygen, BaseBattery,
\* Charging, Bso, SensorBattery and BabyMovement, and after the call the gauges
\* heart_rate, oxygen_level, base_battery_level, charging_status,
\* base_station_on, sensor_battery and baby_movement show, for that device, the
\* payload's hr, ox, bat, chg, bso, btt and mv.
C12_FullPayloadPublished ==
  [][ \A d \in Devices :
        (RecordsDevice(d) /\ FullPayload(allProps[d])) =>
          LET obj == VitalsObj(allProps[d])
              v   == Unmarshal(allProps[d]["REAL_TIME_VITALS"].Value.s).vitals
          IN  /\ SevenTags \subseteq {VitalsFields[f].tag : f \in DOMAIN v}
              /\ v["HeartRate"] = obj["hr"]
              /\ v["Oxygen"] = obj["ox"]
              /\ v["BaseBattery"] = obj["bat"]
              /\ v["Charging"] = obj["chg"]
              /\ v["Bso"] = obj["bso"]
              /\ v["SensorBattery"] = obj["btt"]
              /\ v["BabyMovement"] = obj["mv"]
              /\ GaugeAt(gauges', "heart_rate", d) = <<obj["hr"].v>>
              /\ GaugeAt(gauges', "oxygen_level", d) = <<obj["ox"].v>>
              /\ GaugeAt(gauges', "base_battery_level", d) = <<obj["bat"].v>>
              /\ GaugeAt(gauges', "charging_status", d) = <<obj["chg"].v>>
              /\ GaugeAt(gauges', "base_station_on", d) = <<obj["bso"].v>>
              /\ GaugeAt(gauges', "sensor_battery", d) = <<obj["btt"].v>>
              /\ GaugeAt(gauges', "baby_movement", d) = <<obj["mv"].v>>
    ]_vars

\* The payload of the specification's example has been published for a device
\* that showed other values before.
C12_Witness ==
  \E d \in Devices :
    /\ d \in DOMAIN allProps /\ FullPayload(allProps[d])
    /\ \E i \in DOMAIN recorded : recorded[i] = d
    /\ GaugeAt(gauges0, "oxygen_level", d) = <<97>>
    /\ GaugeAt(gauges, "heart_rate", d) = <<142>>
    /\ GaugeAt(gauges, "oxygen_level", d) = <<98>>
    /\ GaugeAt(gauges, "base_battery_level", d) = <<80>>
    /\ GaugeAt(gauges, "charging_status", d) = <<1>>
    /\ GaugeAt(gauges, "base_station_on", d) = <<1>>
    /\ GaugeAt(gauges, "sensor_battery", d) = <<300>>
    /\ GaugeAt(gauges, "baby_movement", d) = <<2>>

EuropeTarget(kind) ==
  CASE kind = "verifyPassword" -> "AIzaSyDm6Eh"
    [] kind = "mini"           -> "ayla-sso.eu.owletdata.com/mini/"
    [] kind = "token_sign_in"  -> "user-field-eu-1a2039d9/token_sign_in"
    [] OTHER                   -> "ads-field-eu-1a2039d9/apiv1"

\* C13: with OWLET_REGION unset or empty, login() never returns (and the process
\* never exits with) the unrecognised-region error, the region it settles on is
\* europe, and every request goes to the europe entry of the region table: the
\* europe API key for the identity verification, the europe mini-token and
\* sign-in addresses, and the europe base address for the device requests.
C13_EmptyRegionIsEurope ==
  env.OWLET_REGION = "" =>
    /\ loginRet # "OWLET_REGION env var not recognised"
    /\ exitErr # "OWLET_REGION env var not recognised"
    /\ region = (IF phase = "STARTUP" /\ pc = "login" THEN "" ELSE "europe")
    /\ \A i \in DOMAIN reqs : reqs[i].to = EuropeTarget(reqs[i].kind)

\* With no region in the environment a login went through its three hops and
\* the devices were then asked for their properties.
C13_Witness ==
  /\ env.OWLET_REGION = "" /\ env.OWLET_USER # ""
  /\ phase = "STEADY" /\ region = "europe"
  /\ \E i \in DOMAIN reqs : reqs[i].kind = "token_sign_in" /\ reqs[i].ok
  /\ \E i \in DOMAIN reqs : reqs[i].kind = "properties"

HopKinds == <<"verifyPassword", "mini", "token_sign_in">>

IsHop(r) == \E k \in DOMAIN HopKinds : r.kind = HopKinds[k]

\* C14: among the requests issued since the process or the cycle started, the
\* identity verification is the first, a mini-token exchange directly follows
\* an identity verification that login() took as a success, a sign-in directly
\* follows a mini-token exchange that it took as a success, and a hop that
\* failed is the last request (login() returned, and its caller exits or
\* skips the cycle); while login() is between hops, the hops issued so far are
\* exactly the ones before the position it is at.
C14_HopsInOrder ==
  /\ \A i \in DOMAIN reqs :
       /\ \A k \in DOMAIN HopKinds :
            reqs[i].kind = HopKinds[k] =>
              /\ i = k
              /\ \A j \in 1..(k - 1) : reqs[j].kind = HopKinds[j] /\ reqs[j].ok
       /\ (IsHop(reqs[i]) /\ ~reqs[i].ok) => i = Len(reqs)
  /\ pc = "hop1" => reqs = <<>>
  /\ pc = "hop2" => Len(reqs) = 1 /\ reqs[1].kind = "verifyPassword" /\ reqs[1].ok
  /\ pc = "hop3" => Len(reqs) = 2 /\ reqs[2].kind = "mini" /\ reqs[2].ok

\* A login() of a STEADY cycle that got through the first hop and failed at the
\* second: the cycle sleeps and no sign-in was issued.
C14_Witness ==
  /\ phase = "STEADY" /\ pc = "sleep"
  /\ Len(reqs) = 2
  /\ reqs[1].kind = "verifyPassword" /\ reqs[1].ok
  /\ reqs[2].kind = "mini" /\ ~reqs[2].ok

\* C15: STEADY is only entered with a device list that is not empty; no step
\* taken in STEADY changes the list; a device-listing request is issued only in
\* STARTUP while the list is empty; and a fetchDSN() call made while a list is
\* cached issues no request, takes no time, leaves the list as it is and
\* returns nil (loop() goes on to its for).
C15_DevicesDiscoveredOnce ==
  [][ /\ phase' = "STEADY" => Len(dsns') > 0
      /\ phase = "STEADY" => dsns' = dsns
      /\ Issues({"devices"}) => (phase = "STARTUP" /\ dsns = <<>>)
      /\ (pc = "fetchDSN" /\ Len(dsns) > 0) =>
           /\ reqs' = reqs /\ dsns' = dsns /\ now' = now
           /\ phase' = "STEADY" /\ exitErr' = exitErr
    ]_vars

\* fetchDSN() returned from a call made with two devices cached: no request is
\* in the history, and loop() is about to start its first cycle.
C15_Witness ==
  /\ phase = "STEADY" /\ pc = "cycle"
  /\ reqs = <<>>
  /\ Len(dsns) = 2

EndsFetchProps ==
  pc \in {"reactivate", "properties"} /\ pc' \notin {"reactivate", "properties"}

AskedIn(q, kind, d, ok) ==
  \E i \in DOMAIN q : q[i].kind = kind /\ q[i].dsn = d /\ q[i].ok = ok

\* C16: whatever the reactivations and property fetches of a cycle returned,
\* the step that ends fetchProps() returns a nil error with its mapping, and
\* runMonitoringCycle goes on to range over exactly the keys of that mapping
\* (straight to the wait when it is empty): the keys are the devices whose
\* property fetch succeeded, and a device whose reactivation or fetch failed is
\* not a key.
C16_FetchPropsNeverFails ==
  [][ EndsFetchProps =>
        /\ FetchPropsErr(allProps') = "nil"
        /\ toRecord' = DOMAIN allProps'
        /\ pc' = (IF DOMAIN allProps' = {} THEN "wait" ELSE "record")
        /\ phase' = "STEADY"
        /\ \A d \in Devices :
             /\ d \in DOMAIN allProps' <=> AskedIn(reqs', "properties", d, TRUE)
             /\ (AskedIn(reqs', "reactivate", d, FALSE)
                   \/ AskedIn(reqs', "properties", d, FALSE)) => d \notin DOMAIN allProps'
             /\ \E ok \in BOOLEAN : AskedIn(reqs', "reactivate", d, ok)
    ]_vars

\* A cycle in which the reactivation of one device and the property fetch of
\* the other failed: the mapping is empty and the cycle ended at the wait.
C16_Witness ==
  /\ phase = "STEADY" /\ pc = "wait" /\ loginRet = "nil"
  /\ Len(dsns) = 2
  /\ allProps = <<>>
  /\ \E d \in Devices : Asked("reactivate", d, FALSE)
  /\ \E d \in Devices : Asked("properties", d, FALSE)

\* The place of a device in the discovered list.
Pos(d) == CHOOSE i \in DOMAIN dsns : dsns[i] = d

DeviceReq(r) == r.kind \in {"reactivate", "properties"}

\* The reactivations and property fetches of the cycle follow the discovered
\* list: a request for an earlier device is never issued after one for a later
\* device, and a device's fetch follows its reactivation.
RequestsInDiscoveryOrder ==
  \A i, j \in DOMAIN reqs :
    (i < j /\ DeviceReq(reqs[i]) /\ DeviceReq(reqs[j])) =>
      /\ Pos(reqs[i].dsn) <= Pos(reqs[j].dsn)
      /\ reqs[i].dsn = reqs[j].dsn =>
           (reqs[i].kind = "reactivate" /\ reqs[j].kind = "properties")

\* C17 as stated: the requests follow the discovered list, and so do the
\* recordVitals calls (decode and publish) of the cycle.
C17_AllInDiscoveryOrder ==
  /\ RequestsInDiscoveryOrder
  /\ \A i, j \in DOMAIN recorded :
       i < j => Pos(recorded[i]) < Pos(recorded[j])

\* C17, amended: the reactivations and property fetches follow the discovered
\* list, one device after the other, and every device has been asked once the
\* range over dsns is over; the recordVitals calls come after the requests of
\* all devices, one call per device of the mapping, in any order.
C17_FetchInDiscoveryOrder ==
  /\ RequestsInDiscoveryOrder
  /\ (phase = "STEADY" /\ loginRet = "nil" /\ pc \in {"record", "wait"}) =>
       \A d \in Devices : \E i \in DOMAIN reqs :
         reqs[i].kind = "reactivate" /\ reqs[i].dsn = d
  /\ recorded # <<>> =>
       /\ pc \in {"record", "wait", "exit"}
       /\ idx > Len(dsns)
  /\ \A i, j \in DOMAIN recorded : i # j => recorded[i] # recorded[j]
  /\ \A i \in DOMAIN recorded : recorded[i] \in DOMAIN allProps
  /\ pc \in {"record", "wait"} /\ loginRet = "nil" =>
       toRecord \cup {recorded[i] : i \in DOMAIN recorded} = DOMAIN allProps

\* A cycle that asked the first device and then the second, and published the
\* second before the first.
C17_Witness ==
  /\ pc = "wait" /\ Len(dsns) = 2
  /\ Len(reqs) = 4
  /\ reqs[1].dsn = dsns[1] /\ reqs[3].dsn = dsns[2]
  /\ recorded = <<dsns[2], dsns[1]>>

\* C20: for every successful property-listing request of the cycle, the mapping
\* stored for its device has exactly the names of the answered list as keys,
\* and holds for each name the last property of that name in the list.
C20_LastOccurrenceWins ==
  \A i \in DOMAIN reqs :
    (reqs[i].kind = "properties" /\ reqs[i].ok) =>
      LET ps == reqs[i].body
          m  == allProps[reqs[i].dsn]
      IN  /\ reqs[i].dsn \in DOMAIN allProps
          /\ DOMAIN m = {ps[k].Name : k \in DOMAIN ps}
          /\ \A k \in DOMAIN ps :
               (\A l \in DOMAIN ps : l > k => ps[l].Name # ps[k].Name) =>
                 m[ps[k].Name] = ps[k]

\* A device answered with a list that names REAL_TIME_VITALS twice, with
\* different values: the mapping holds the second.
C20_Witness ==
  \E i \in DOMAIN reqs :
    /\ reqs[i].kind = "properties" /\ reqs[i].ok
    /\ \E k, l \in DOMAIN reqs[i].body :
         /\ k < l
         /\ reqs[i].body[k].Name = reqs[i].body[l].Name
         /\ reqs[i].body[k].Value # reqs[i].body[l].Value
         /\ allProps[reqs[i].dsn][reqs[i].body[k].Name] = reqs[i].body[l]

\* The clock of the model has no room left for the sleep after a failed login.
ClockEnded == now + BackoffSleep > MaxTime

\* C18: every STEADY cycle that starts (runMonitoringCycle is at its login())
\* eventually reaches the wait for the next tick, whatever its requests and
\* decodes return, unless the clock of the model ends during the sleep after a
\* failed login; the wait always starts a cycle; and no step taken in STEADY
\* leaves STEADY.
C18_CycleCompletes ==
  /\ (phase = "STEADY" /\ pc = "login" /\ loginRet = "none")
       ~> (pc = "wait" \/ (pc = "sleep" /\ ClockEnded))
  /\ [][ /\ phase = "STEADY" => phase' = "STEADY"
         /\ (phase = "STEADY" /\ pc \in {"cycle", "wait"}) =>
              (pc' = "login" /\ loginRet' = "none")
       ]_vars

\* A cycle of two devices ended at the wait after every reactivation failed.
C18_Witness ==
  /\ phase = "STEADY" /\ pc = "wait" /\ loginRet = "nil"
  /\ Len(dsns) = 2 /\ Len(reqs) = 2
  /\ \A d \in Devices : Asked("reactivate", d, FALSE)

\* The last value recordVitals wrote to gauge m of device d: the payload's value
\* when the device's payload was published in this cycle and carries the key,
\* else what the gauge held when the cycle started.
LastWritten(m, d) ==
  IF /\ \E i \in DOMAIN recorded : recorded[i] = d
     /\ Decodes(allProps[d])
  THEN ExpectedAfter(gauges0, m, d, VitalsObj(allProps[d]))
  ELSE GaugeAt(gauges0, m, d)

ShortSession == issued.done /\ issued.ttl <= Margin

\* C21: a login() whose sign-in answer carries a ttl of 60 seconds or less
\* returns nil and installs an expiry that is not after the install time; while
\* that session is in place its expiry stays at or before the install time, and
\* every login() call, the one that starts the first cycle included, goes on to
\* the identity verification instead of returning with the cached session, and
\* issues that request.
C21_ShortTtlNeverReused ==
  [][ /\ (pc = "hop3" /\ issued' # issued /\ issued'.ttl <= Margin) =>
           /\ loginRet' = "nil"
           /\ issued'.at = now'
           /\ expireTime' <= now'
      /\ ShortSession => (expireTime <= issued.at /\ ~SessionValid)
      /\ (ShortSession /\ pc = "login") =>
           /\ pc' = "hop1"
           /\ loginRet' = loginRet /\ reqs' = reqs
      /\ (ShortSession /\ pc = "hop1") => Issues({"verifyPassword"})
    ]_vars

\* The first cycle, started at the instant the startup login installed a token
\* with a ttl of exactly 60 s, is at the first hop of a new login.
C21_Witness ==
  /\ phase = "STEADY" /\ pc = "hop1"
  /\ authToken # ""
  /\ issued.done /\ issued.ttl = 60
  /\ issued.at = now /\ expireTime = now

====
